---- MODULE Spec2Model ----
(***************************************************************************)
(* bouldercaves/audio.py: the real-time sample mixer (SampleMixer), the    *)
(* chunk sources (BCSample.chunked_data) and the two output drivers:       *)
(* the callback ("pull") driver Sounddevice, where the game's threads call *)
(* the mixer directly while PortAudio's callback thread pulls chunks, and  *)
(* the thread ("push") drivers SounddeviceThread / PyAudio, where commands *)
(* travel through samp_queue to the audio thread.                          *)
(*                                                                         *)
(* In the concurrent specifications (Spec, RaceSpec, PushSpec, LoadedSpec)  *)
(* a chunk is its length in bytes and the set of voices (generator         *)
(* objects) it was mixed from.  A generator object is identified by the    *)
(* value of _sid at its creation (add_sample increments _sid for every     *)
(* admission, whether or not the caller supplied a sid).  ChunkSpec        *)
(* follows the bytes of one sample through chunked_data and through a      *)
(* mixer that has this one voice.                                          *)
(***************************************************************************)
EXTENDS Integers, Sequences, FiniteSets, TLC

\* ------------------------------------------------------------------ bounds
\* mixer chunk size in bytes (SampleMixer.chunksize, chosen by the driver)
chunksize == 2
\* length in bytes of the sample data registered under name "a" / "b"
LenA == 1
LenB == 3
\* number of control-API calls one behaviour makes
MaxCalls == 3
\* largest integer a caller passes as a sid to silence_audio
MaxSidArg == 2
\* largest value passed to set_sample_play_limit
MaxLimit == 1
\* number of distinct addresses the allocator gives to the job dicts of play()
NumAddrs == 2

\* longest sample data, in bytes, and largest byte value, of the byte-level view
MaxBuf == 4
MaxByte == 1
\* largest chunksize argument given to chunked_data there
MaxChunk == 3
\* number of chunks a consumer takes there
MaxPulls == 5

\* ------------------------------------------------------- program constants
\* allow_sample: "max_samples = self.sample_limits[sample.name] or 4"
DefaultLimit == 4
\* allow_sample: "if sum(self.sample_counts.values()) >= 8"
MaxVoices == 8
\* AudioApi.__init__: "self.samp_queue = queue.Queue(maxsize=100)"
maxsize == 100

Names == {"a", "b"}
samples == [n \in Names |-> [name |-> n, len |-> IF n = "a" THEN LenA ELSE LenB]]

\* the game's thread, and a second thread of the host program calling the API
Game == "t1"
Other == "t2"
CtlThreads == {Game, Other}
Drv == "drv"
Threads == CtlThreads \cup {Drv}
Free == "free"

VARIABLES
    active_samples,   \* SampleMixer.active_samples: dict sid -> (name, generator), in insertion order
    sample_counts,    \* SampleMixer.sample_counts: defaultdict(int)
    sample_limits,    \* SampleMixer.sample_limits: defaultdict(int)
    _sid,             \* SampleMixer._sid
    add_lock,         \* SampleMixer.add_lock: its holder, or Free
    gens,             \* the generator objects made by chunked_data: their arguments and cursor i
    pc,               \* where each thread is
    call,             \* the arguments of the call a control thread is in
    todo,             \* the local list active_samples a thread iterates over
    cur,              \* the sid a thread is about to pass to remove_sample
    ret,              \* what a control thread's last call returned or raised
    chunks_to_mix,    \* chunks(): the local list chunks_to_mix
    out,              \* the chunk the mixer yielded last
    driver,           \* the AudioApi class in use: "Sounddevice" (callback) or "SounddeviceThread"
    samp_queue,       \* AudioApi.samp_queue
    job,              \* audio_thread's local variable job
    calls,            \* control calls made so far
    silence_mark,     \* history: _sid when clear_sources last ran
    stopped,          \* history: generators removed by clear_source(sid) through the API
    asm,              \* history: silence_mark, stopped and _sid when the chunk in assembly took its snapshot
    limit_set,        \* history: names for which set_limit was ever called
    sampledata,       \* BCSample.sampledata of the sample whose bytes are followed
    yielded,          \* history: the chunks its consumer has received, in order
    params,           \* synth_params: norm_samplewidth and norm_nchannels
    outdata,          \* the device buffer the stream hands to streamcallback
    played            \* history: the voices added under a caller's id, and whether a stop of
                      \* that id has been applied since

mixer == <<active_samples, sample_counts, sample_limits, _sid>>
\* the byte-level view of one sample; at rest where lengths are all that matters
snd == <<sampledata, yielded, params, outdata>>
pcm == <<sampledata, yielded, params, outdata, played>>
vars == <<active_samples, sample_counts, sample_limits, _sid, add_lock, gens, pc, call,
          todo, cur, ret, chunks_to_mix, out, driver, samp_queue, job, calls, silence_mark, stopped, asm,
          limit_set, sampledata, yielded, params, outdata, played>>

\* the frame geometry the game runs with: 16-bit stereo
DefaultParams == [norm_samplewidth |-> 2, norm_nchannels |-> 2]

\* ------------------------------------------------------------ python values
None == [k |-> "none", v |-> 0, n |-> ""]
PyInt(i) == [k |-> "int", v |-> i, n |-> ""]
PyStr(s) == [k |-> "str", v |-> 0, n |-> s]
Ok == [k |-> "ok", v |-> 0, n |-> ""]
KeyError == [k |-> "KeyError", v |-> 0, n |-> ""]
Pending == [k |-> "pending", v |-> 0, n |-> ""]
\* the None that Output.silence's parameter sid_or_name defaults to when the caller
\* passes nothing; None above is a None the caller passed
NoArg == [k |-> "none", v |-> 0, n |-> "default"]
ValueError == [k |-> "ValueError", v |-> 0, n |-> ""]
AssertionError == [k |-> "AssertionError", v |-> 0, n |-> ""]

\* bool(x) for the values above
Truthy(x) == CASE x.k = "none" -> FALSE
               [] x.k = "int" -> x.v # 0
               [] x.k = "str" -> x.n # ""
               [] OTHER -> TRUE

Min(a, b) == IF a < b THEN a ELSE b
CeilDiv(a, b) == (a + b - 1) \div b

RECURSIVE SumOver(_, _)
SumOver(f, S) == IF S = {} THEN 0
                 ELSE LET x == CHOOSE y \in S : TRUE IN f[x] + SumOver(f, S \ {x})

\* --------------------------------------------------- BCSample.chunked_data
\* The generator made by sample.chunked_data(chunksize, repeat): its state is the
\* cursor i; "length" is the length of bdata before the overlap region is appended.
RepeatLength(len) == IF len < chunksize THEN len * CeilDiv(chunksize, len) ELSE len

NewGen(name, repeat) == [name |-> name, len |-> samples[name].len, repeat |-> repeat, i |-> 0]

\* A generator no dict entry and no local list refers to any more is garbage: it can
\* never run again, so its cursor is forgotten.
Collected == [name |-> "", len |-> 0, repeat |-> FALSE, i |-> 0]
Referenced(as, td) == {as[j].gen : j \in DOMAIN as}
                      \cup UNION {{td[t][j].gen : j \in DOMAIN td[t]} : t \in DOMAIN td}
Collect(gs, as, td) == [k \in DOMAIN gs |-> IF k \in Referenced(as, td) THEN gs[k] ELSE Collected]

\* next(s) raises StopIteration: only the one-shot loop "while i < len(mdata)" ends
Exhausted(g) == ~g.repeat /\ g.i >= g.len

\* len(mdata[i: i + chunksize])
ChunkLen(g) == IF g.repeat
               THEN Min(chunksize, RepeatLength(g.len) + Min(chunksize, RepeatLength(g.len)) - g.i)
               ELSE Min(chunksize, g.len - g.i)

Advance(g) == IF g.repeat
              THEN [g EXCEPT !.i = (g.i + chunksize) % RepeatLength(g.len)]
              ELSE [g EXCEPT !.i = g.i + chunksize]

\* -------------------------------------------------------------- SampleMixer
Sids(as) == {as[j].sid : j \in DOMAIN as}
Entry(as, sid) == as[CHOOSE j \in DOMAIN as : as[j].sid = sid]
VoicesNamed(as, name) == {j \in DOMAIN as : as[j].name = name}

\* "self.sample_limits[sample.name] or 4"
max_samples(name) == IF sample_limits[name] # 0 THEN sample_limits[name] ELSE DefaultLimit

\* mutant of allow_sample: the test for a repeating sample is left out
allow_sample_norepeat(name, repeat) ==
    /\ ~(sample_counts[name] >= max_samples(name))
    /\ ~(SumOver(sample_counts, Names) >= MaxVoices)

allow_sample(name, repeat) ==
    /\ ~(repeat /\ sample_counts[name] >= 1)
    /\ ~(sample_counts[name] >= max_samples(name))
    /\ ~(SumOver(sample_counts, Names) >= MaxVoices)

\* mutant of NextSid: an id is skipped
NextSid_skip(sid) == sid + 2

\* "self._sid += 1"
NextSid(sid) == sid + 1

\* "self.active_samples[sid] = (name, sample_chunks)": a new key goes last, an
\* existing key keeps its place and gets the new value
DictSet(as, sid, name, gen) ==
    IF sid \in Sids(as)
    THEN [j \in DOMAIN as |-> IF as[j].sid = sid THEN [sid |-> sid, name |-> name, gen |-> gen]
                                                 ELSE as[j]]
    ELSE Append(as, [sid |-> sid, name |-> name, gen |-> gen])

\* mutant of DictDel: remove_sample forgets the del statement
DictDel_kept(as, sid) == as

\* "del self.active_samples[sid]"
DictDel(as, sid) == SelectSeq(as, LAMBDA e : e.sid # sid)

\* mutant of Cleared: clear_sources resets the counts and leaves the dict alone
Cleared_kept(as) == as

\* "self.active_samples.clear()"
Cleared(as) == <<>>

\* mutant of Decremented: remove_sample leaves the count alone
Decremented_kept(counts, name) == counts

\* "self.sample_counts[name] -= 1"
Decremented(counts, name) == [counts EXCEPT ![name] = @ - 1]

\* an add_sample that does not count the voice it inserts
Incremented_kept(counts, name) == counts

\* "self.sample_counts[sample.name] += 1"
Incremented(counts, name) == [counts EXCEPT ![name] = @ + 1]

\* mutant of Padded: the short chunk is appended as it is
Padded_unpadded(len) == len

\* "chunk.tobytes() + silence[:self.chunksize - len(chunk)]" when the chunk is short
Padded(len) == IF len < chunksize THEN len + Min(chunksize, chunksize - len) ELSE len

\* audioop.add(mixed, to_mix, width): both fragments must have the same length,
\* which is the length of the result
RECURSIVE MixedLen(_)
MixedLen(cs) == IF Len(cs) = 1 THEN cs[1].len
                ELSE IF cs[Len(cs)].len = MixedLen(SubSeq(cs, 1, Len(cs) - 1))
                     THEN cs[Len(cs)].len ELSE -1

\* ------------------------------------------------------------------- state
NoCall == [op |-> "none", name |-> "", repeat |-> FALSE, x |-> None]
\* the audio thread / the callback is in next(self.mixer.mixed_chunks)
ChunksCall == [NoCall EXCEPT !.op = "chunks"]
NoChunk == [valid |-> FALSE, len |-> 0, n |-> 0, short |-> FALSE]
NoJob == [kind |-> "none", name |-> "", repeat |-> FALSE, id |-> 0, x |-> None, seq |-> 0]

InitMixer ==
    /\ active_samples = <<>>
    /\ sample_counts = [n \in Names |-> 0]
    /\ sample_limits = [n \in Names |-> 0]
    /\ _sid = 0
    /\ add_lock = Free
    /\ gens = <<>>
    /\ call = [t \in Threads |-> IF t = Drv THEN ChunksCall ELSE NoCall]
    /\ todo = [t \in Threads |-> <<>>]
    /\ cur = [t \in Threads |-> 0]
    /\ ret = [t \in Threads |-> Ok]
    /\ chunks_to_mix = <<>>
    /\ out = NoChunk
    /\ samp_queue = <<>>
    /\ job = NoJob
    /\ calls = 0
    /\ silence_mark = 0
    /\ stopped = {}
    /\ asm = [mark |-> 0, stopped |-> {}, sid |-> 0]
    /\ limit_set = {}
    /\ sampledata = <<>>
    /\ yielded = <<>>
    /\ params = DefaultParams
    /\ outdata = <<>>
    /\ played = {}

\* Sounddevice.__init__: the mixer exists and the stream's callback is running
Init ==
    /\ InitMixer
    /\ driver = "Sounddevice"
    /\ pc = [t \in Threads |-> IF t = Drv THEN "snap_lock" ELSE "idle"]

\* ------------------------------------------------- threads and the add_lock
\* where a thread goes when the mixer call it made on behalf of op returns:
\* a control thread is back in the game; the audio thread "continue"s to
\* get_nowait after silence/stopsample and pulls a chunk after add_sample
AfterCall(t, op) == IF t # Drv THEN "idle" ELSE IF op = "play" THEN "snap_lock" ELSE "get"

\* where it goes when the call raises: the exception reaches the game's caller,
\* or ends the audio thread / the mixer's generator
AfterRaise(t) == IF t # Drv THEN "idle" ELSE "dead"

\* a lock that is still held when the chunks are pulled
Inside_pull(p) == CASE p = "add_lock" -> "add_cs"
                    [] p = "clear_lock" -> "clear_cs"
                    [] p = "snap_lock" -> "pull"
                    [] p = "rm_lock" -> "rm_cs"

LockWait == {"add_lock", "clear_lock", "snap_lock", "rm_lock"}
Inside(p) == CASE p = "add_lock" -> "add_cs"
               [] p = "clear_lock" -> "clear_cs"
               [] p = "snap_lock" -> "snap_cs"
               [] p = "rm_lock" -> "rm_cs"

\* "with self.add_lock:" entered
Acquire(t) ==
    /\ pc[t] \in LockWait
    /\ add_lock = Free
    /\ add_lock' = t
    /\ pc' = [pc EXCEPT ![t] = Inside(pc[t])]
    /\ UNCHANGED <<mixer, gens, call, todo, cur, ret, chunks_to_mix, out, driver, pcm, samp_queue,
                   job, calls, silence_mark, stopped, asm, limit_set>>

\* add_sample, first line: "if not self.allow_sample(sample, repeat): return None",
\* evaluated without the lock.  sid is the caller's sid argument (None from play()).
AddSampleCheck(t, name, repeat, sid) ==
    IF allow_sample(name, repeat)
    THEN /\ pc' = [pc EXCEPT ![t] = "add_lock"]
         /\ call' = [call EXCEPT ![t] = [op |-> "play", name |-> name, repeat |-> repeat, x |-> sid]]
         /\ ret' = [ret EXCEPT ![t] = Pending]
    ELSE /\ pc' = [pc EXCEPT ![t] = AfterCall(t, "play")]
         /\ call' = [call EXCEPT ![t] = IF t = Drv THEN ChunksCall ELSE NoCall]
         /\ ret' = [ret EXCEPT ![t] = None]

\* add_sample, the block under the lock
AddBody(t) ==
    /\ pc[t] = "add_cs"
    /\ LET newsid == NextSid(_sid)
            sid == IF Truthy(call[t].x) THEN call[t].x.v ELSE newsid
       IN /\ _sid' = newsid
          /\ active_samples' = DictSet(active_samples, sid, call[t].name, newsid)
          /\ gens' = Collect(Append(gens, NewGen(call[t].name, call[t].repeat)), active_samples', todo)
          /\ sample_counts' = Incremented(sample_counts, call[t].name)
          /\ ret' = [ret EXCEPT ![t] = PyInt(sid)]
          /\ played' = IF Truthy(call[t].x)
                       THEN played \cup {[gen |-> newsid, id |-> sid, cut |-> FALSE]}
                       ELSE played
    /\ add_lock' = Free
    /\ pc' = [pc EXCEPT ![t] = AfterCall(t, "play")]
    /\ call' = [call EXCEPT ![t] = IF t = Drv THEN ChunksCall ELSE NoCall]
    /\ UNCHANGED <<sample_limits, todo, cur, chunks_to_mix, out, driver, snd, samp_queue, job, calls,
                   silence_mark, stopped, asm, limit_set>>

\* clear_sources, the block under the lock
ClearBody(t) ==
    /\ pc[t] = "clear_cs"
    /\ active_samples' = Cleared(active_samples)
    /\ sample_counts' = [n \in Names |-> 0]
    /\ silence_mark' = _sid
    /\ add_lock' = Free
    /\ ret' = [ret EXCEPT ![t] = Ok]
    /\ pc' = [pc EXCEPT ![t] = AfterCall(t, "silence")]
    /\ call' = [call EXCEPT ![t] = NoCall]
    /\ gens' = Collect(gens, active_samples', todo)
    /\ UNCHANGED <<sample_limits, _sid, todo, cur, chunks_to_mix, out, driver, pcm,
                   samp_queue, job, calls, stopped, asm, limit_set>>

\* clear_source(sid_or_name): "if isinstance(sid_or_name, int): self.remove_sample(..)
\* else: with self.add_lock: ..."
ClearSourceStart(t, x) ==
    IF x.k = "int"
    THEN /\ call' = [call EXCEPT ![t] = [op |-> "stop_sid", name |-> "", repeat |-> FALSE, x |-> x]]
         /\ cur' = [cur EXCEPT ![t] = x.v]
         /\ todo' = [todo EXCEPT ![t] = <<>>]
         /\ pc' = [pc EXCEPT ![t] = "rm_lock"]
    ELSE /\ call' = [call EXCEPT ![t] = [op |-> "stop_name", name |-> "", repeat |-> FALSE, x |-> x]]
         /\ pc' = [pc EXCEPT ![t] = "snap_lock"]
         /\ UNCHANGED <<cur, todo>>

\* the loop "for sid, (name, _) in active_samples: if name == sid_or_name:
\* self.remove_sample(sid)" over what is left of the local list: entries of another
\* name are passed over; None equals no name
Matching(list, x) == SelectSeq(list, LAMBDA e : x.k = "str" /\ e.name = x.n)

\* a copy of the dict's items that lacks the voice added last
Items_butlast(as) == IF as = <<>> THEN as ELSE SubSeq(as, 1, Len(as) - 1)

\* "list(self.active_samples.items())": every item of the dict, in insertion order
Items(as) == as

\* clear_source, "active_samples = list(self.active_samples.items())" under the lock
NameSnapBody(t) ==
    /\ pc[t] = "snap_cs"
    /\ call[t].op = "stop_name"
    /\ add_lock' = Free
    /\ LET list == Matching(Items(active_samples), call[t].x)
       IN IF list = <<>>
          THEN /\ pc' = [pc EXCEPT ![t] = AfterCall(t, "stop_name")]
               /\ ret' = [ret EXCEPT ![t] = Ok]
               /\ call' = [call EXCEPT ![t] = NoCall]
               /\ UNCHANGED <<cur, todo>>
          ELSE /\ pc' = [pc EXCEPT ![t] = "rm_lock"]
               /\ cur' = [cur EXCEPT ![t] = Head(list).sid]
               /\ todo' = [todo EXCEPT ![t] = Tail(list)]
               /\ UNCHANGED <<ret, call>>
    /\ UNCHANGED <<mixer, gens, chunks_to_mix, out, driver, pcm, samp_queue, job, calls,
                   silence_mark, stopped, asm, limit_set>>

\* remove_sample(sid), the block under the lock: "name = self.active_samples[sid][0]"
\* raises KeyError for a sid that is not a key
RemoveBody(t) ==
    /\ pc[t] = "rm_cs"
    /\ add_lock' = Free
    /\ IF cur[t] \notin Sids(active_samples)
       THEN /\ ret' = [ret EXCEPT ![t] = KeyError]
            /\ pc' = [pc EXCEPT ![t] = AfterRaise(t)]
            /\ todo' = [todo EXCEPT ![t] = <<>>]
            /\ cur' = [cur EXCEPT ![t] = 0]
            /\ call' = [call EXCEPT ![t] = NoCall]
            /\ gens' = Collect(gens, active_samples, todo')
            /\ UNCHANGED <<mixer, stopped>>
       ELSE LET e == Entry(active_samples, cur[t])
            IN /\ active_samples' = DictDel(active_samples, cur[t])
               /\ sample_counts' = Decremented(sample_counts, e.name)
               /\ stopped' = IF call[t].op = "stop_sid" THEN stopped \cup {e.gen} ELSE stopped
               /\ UNCHANGED <<sample_limits, _sid>>
               /\ IF call[t].op = "chunks"
                  THEN /\ pc' = [pc EXCEPT ![t] = "pull"]
                       /\ cur' = [cur EXCEPT ![t] = 0]
                       /\ UNCHANGED <<ret, todo, call>>
                  ELSE IF todo[t] # <<>>
                  THEN /\ pc' = [pc EXCEPT ![t] = "rm_lock"]
                       /\ cur' = [cur EXCEPT ![t] = Head(todo[t]).sid]
                       /\ todo' = [todo EXCEPT ![t] = Tail(todo[t])]
                       /\ UNCHANGED <<ret, call>>
                  ELSE /\ pc' = [pc EXCEPT ![t] = AfterCall(t, call[t].op)]
                       /\ ret' = [ret EXCEPT ![t] = Ok]
                       /\ cur' = [cur EXCEPT ![t] = 0]
                       /\ call' = [call EXCEPT ![t] = NoCall]
                       /\ UNCHANGED todo
               /\ gens' = Collect(gens, active_samples', todo')
    /\ played' = IF t = Drv /\ call[t].op = "stop_sid"
                 THEN {[p EXCEPT !.cut = p.cut \/ p.id = cur[t]] : p \in played}
                 ELSE played
    /\ UNCHANGED <<chunks_to_mix, out, driver, snd, samp_queue, job, calls,
                   silence_mark, asm, limit_set>>

\* ------------------------------------------------------ SampleMixer.chunks
\* "with self.add_lock: active_samples = list(self.active_samples.items())" at the
\* top of "while True"
ChunksSnapBody ==
    /\ pc[Drv] = "snap_cs"
    /\ call[Drv].op # "stop_name"
    /\ add_lock' = Free
    /\ todo' = [todo EXCEPT ![Drv] = Items(active_samples)]
    /\ chunks_to_mix' = <<>>
    /\ asm' = [mark |-> silence_mark, stopped |-> stopped, sid |-> _sid]
    /\ call' = [call EXCEPT ![Drv] = ChunksCall]
    /\ pc' = [pc EXCEPT ![Drv] = "pull"]
    /\ UNCHANGED <<mixer, gens, cur, ret, out, driver, pcm, samp_queue, job, calls, silence_mark,
                   stopped, limit_set>>

\* one round of "for i, (name, s) in active_samples": chunk = next(s), checked and
\* padded and appended, or StopIteration and on to self.remove_sample(i)
ChunksNext ==
    /\ pc[Drv] = "pull"
    /\ todo[Drv] # <<>>
    /\ LET e == Head(todo[Drv])
           g == gens[e.gen]
       IN /\ todo' = [todo EXCEPT ![Drv] = Tail(todo[Drv])]
          /\ IF Exhausted(g)
             THEN /\ cur' = [cur EXCEPT ![Drv] = e.sid]
                  /\ pc' = [pc EXCEPT ![Drv] = "rm_lock"]
                  /\ gens' = Collect(gens, active_samples, todo')
                  /\ UNCHANGED <<chunks_to_mix, ret>>
             ELSE /\ gens' = Collect([gens EXCEPT ![e.gen] = Advance(g)], active_samples, todo')
                  /\ IF ChunkLen(g) > chunksize
                     THEN /\ ret' = [ret EXCEPT ![Drv] = ValueError]
                          /\ pc' = [pc EXCEPT ![Drv] = "dead"]
                          /\ UNCHANGED chunks_to_mix
                     ELSE /\ chunks_to_mix' = Append(chunks_to_mix,
                                                     [gen |-> e.gen, len |-> Padded(ChunkLen(g)),
                                                      raw |-> ChunkLen(g)])
                          /\ UNCHANGED <<ret, pc>>
                  /\ UNCHANGED cur
    /\ UNCHANGED <<mixer, add_lock, call, out, driver, pcm, samp_queue, job, calls, silence_mark,
                   stopped, asm, limit_set>>

\* "chunks_to_mix = chunks_to_mix or [memoryview(silence)]"; gen 0 is the silence chunk
ToMix(cs) == IF cs = <<>> THEN <<[gen |-> 0, len |-> chunksize, raw |-> chunksize]>> ELSE cs

\* the rest of the round: the assertion, the mix and "yield mixed".  The callback
\* copies the chunk to the device and returns; the audio thread writes it to the
\* stream and goes back to get_nowait.
ChunksYield ==
    /\ pc[Drv] = "pull"
    /\ todo[Drv] = <<>>
    /\ LET cs == ToMix(chunks_to_mix)
       IN IF \A j \in DOMAIN cs : cs[j].len = chunksize
          THEN /\ out' = [valid |-> TRUE, len |-> MixedLen(cs), n |-> Len(chunks_to_mix),
                          short |-> \E j \in DOMAIN cs : cs[j].raw < chunksize]
               /\ pc' = [pc EXCEPT ![Drv] = IF driver = "Sounddevice" THEN "snap_lock" ELSE "get"]
               /\ UNCHANGED ret
          ELSE /\ ret' = [ret EXCEPT ![Drv] = AssertionError]
               /\ pc' = [pc EXCEPT ![Drv] = "dead"]
               /\ UNCHANGED out
    /\ chunks_to_mix' = <<>>
    /\ UNCHANGED <<mixer, add_lock, gens, call, todo, cur, driver, pcm, samp_queue, job, calls,
                   silence_mark, stopped, asm, limit_set>>

\* ------------------------------------- the control API, callback driver
\* values a caller passes to silence_audio / Output.silence
XArgs == {NoArg, None} \cup {PyInt(i) : i \in 1..MaxSidArg} \cup {PyStr(n) : n \in Names}

\* play_sample -> Output.play_sample -> Sounddevice.play -> mixer.add_sample(sample, repeat)
Play(t, name, repeat) ==
    /\ pc[t] = "idle"
    /\ calls < MaxCalls
    /\ calls' = calls + 1
    /\ AddSampleCheck(t, name, repeat, None)
    /\ UNCHANGED <<mixer, add_lock, gens, todo, cur, chunks_to_mix, out, driver, pcm, samp_queue, job,
                   silence_mark, stopped, asm, limit_set>>

\* silence_audio(sid_or_name) -> Output.silence: "if sid_or_name: self.audio_api.stop(..)
\* else: self.audio_api.silence()"; Sounddevice.stop -> mixer.clear_source,
\* Sounddevice.silence -> mixer.clear_sources
Silence(t, x) ==
    /\ pc[t] = "idle"
    /\ calls < MaxCalls
    /\ calls' = calls + 1
    /\ ret' = [ret EXCEPT ![t] = Pending]
    /\ IF Truthy(x)
       THEN ClearSourceStart(t, x)
       ELSE /\ call' = [call EXCEPT ![t] = [op |-> "silence", name |-> "", repeat |-> FALSE, x |-> x]]
            /\ pc' = [pc EXCEPT ![t] = "clear_lock"]
            /\ UNCHANGED <<cur, todo>>
    /\ UNCHANGED <<mixer, add_lock, gens, chunks_to_mix, out, driver, pcm, samp_queue, job,
                   silence_mark, stopped, asm, limit_set>>

\* SampleMixer.set_limit
set_limit(limits, samplename, max_simultaneously) ==
    [limits EXCEPT ![samplename] = max_simultaneously]

\* Output.set_sample_play_limit -> <api>.set_sample_play_limit -> mixer.set_limit
SetLimit(t, name, n) ==
    /\ pc[t] = "idle"
    /\ calls < MaxCalls
    /\ calls' = calls + 1
    /\ sample_limits' = set_limit(sample_limits, name, n)
    /\ limit_set' = limit_set \cup {name}
    /\ ret' = [ret EXCEPT ![t] = Ok]
    /\ UNCHANGED <<active_samples, sample_counts, _sid, add_lock, gens, pc, call, todo, cur,
                   chunks_to_mix, out, driver, pcm, samp_queue, job, silence_mark, stopped, asm>>

\* what one thread of the host program can do through the callback driver
ApiStep(t) ==
    \/ \E n \in Names, r \in BOOLEAN : Play(t, n, r)
    \/ \E x \in XArgs : Silence(t, x)
    \/ \E n \in Names, k \in 0..MaxLimit : SetLimit(t, n, k)
    \/ Acquire(t)
    \/ AddBody(t)
    \/ ClearBody(t)
    \/ NameSnapBody(t)
    \/ RemoveBody(t)

\* the callback thread: streamcallback -> next(self.mixer.mixed_chunks)
CallbackStep ==
    \/ Acquire(Drv)
    \/ ChunksSnapBody
    \/ ChunksNext
    \/ RemoveBody(Drv)
    \/ ChunksYield

\* the callback driver with the game's thread
Next == ApiStep(Game) \/ CallbackStep

Spec == Init /\ [][Next]_vars

\* the callback driver with a second thread that also plays samples
RaceNext ==
    \/ Next
    \/ \E n \in Names, r \in BOOLEAN : Play(Other, n, r)
    \/ Acquire(Other)
    \/ AddBody(Other)

RaceSpec == Init /\ [][RaceNext]_vars

\* ------------------------------------- the control API, thread driver
\* id(job): the address of the new dict, which no live dict has.  The dicts alive
\* are those in the queue and the one audio_thread's variable job still refers to.
LiveIds == {samp_queue[j].id : j \in DOMAIN samp_queue} \cup {job.id}
FreshIds == (1..NumAddrs) \ LiveIds

\* seq is history: the job is the calls'-th one put
Put(j) == /\ Len(samp_queue) < maxsize
          /\ samp_queue' = Append(samp_queue, [j EXCEPT !.seq = calls'])

\* AudioApi.play
PushPlay(t, name, repeat, job_id) ==
    /\ pc[t] = "idle"
    /\ calls < MaxCalls
    /\ calls' = calls + 1
    /\ job_id \in FreshIds
    /\ Put([NoJob EXCEPT !.kind = "play", !.name = name, !.repeat = repeat, !.id = job_id])
    /\ ret' = [ret EXCEPT ![t] = PyInt(job_id)]
    /\ UNCHANGED <<mixer, add_lock, gens, pc, call, todo, cur, chunks_to_mix, out, driver, pcm, job,
                   silence_mark, stopped, asm, limit_set>>

\* silence_audio(sid_or_name) -> Output.silence -> AudioApi.stop / AudioApi.silence
PushSilence(t, x) ==
    /\ pc[t] = "idle"
    /\ calls < MaxCalls
    /\ calls' = calls + 1
    /\ IF Truthy(x)
       THEN Put([NoJob EXCEPT !.kind = "stopsample", !.x = x])
       ELSE Put([NoJob EXCEPT !.kind = "silence"])
    /\ ret' = [ret EXCEPT ![t] = Ok]
    /\ UNCHANGED <<mixer, add_lock, gens, pc, call, todo, cur, chunks_to_mix, out, driver, pcm, job,
                   silence_mark, stopped, asm, limit_set>>

\* shutdown_audio -> Output.close -> AudioApi.close
PushClose(t) ==
    /\ pc[t] = "idle"
    /\ calls < MaxCalls
    /\ calls' = calls + 1
    /\ Put([NoJob EXCEPT !.kind = "stop"])
    /\ ret' = [ret EXCEPT ![t] = Ok]
    /\ UNCHANGED <<mixer, add_lock, gens, pc, call, todo, cur, chunks_to_mix, out, driver, pcm, job,
                   silence_mark, stopped, asm, limit_set>>

\* a queue that hands out the job put last
get_nowait_last(q) == q[Len(q)]

\* "self.samp_queue.get_nowait()" on a queue.Queue: the job put first
get_nowait(q) == Head(q)

\* audio_thread: "job = self.samp_queue.get_nowait()" raises queue.Empty: on to
\* "data = next(self.mixer.mixed_chunks)"
GetEmpty ==
    /\ pc[Drv] = "get"
    /\ samp_queue = <<>>
    /\ pc' = [pc EXCEPT ![Drv] = "snap_lock"]
    /\ call' = [call EXCEPT ![Drv] = ChunksCall]
    /\ UNCHANGED <<mixer, add_lock, gens, todo, cur, ret, chunks_to_mix, out, driver, pcm, samp_queue,
                   job, calls, silence_mark, stopped, asm, limit_set>>

\* audio_thread: a job is dequeued and dispatched
GetJob ==
    /\ pc[Drv] = "get"
    /\ samp_queue # <<>>
    /\ job' = get_nowait(samp_queue)
    /\ samp_queue' = Tail(samp_queue)
    /\ CASE job'.kind = "stop" ->
              /\ pc' = [pc EXCEPT ![Drv] = "exited"]
              /\ UNCHANGED <<call, cur, todo, ret>>
         [] job'.kind = "silence" ->
              /\ pc' = [pc EXCEPT ![Drv] = "clear_lock"]
              /\ call' = [call EXCEPT ![Drv] = [NoCall EXCEPT !.op = "silence"]]
              /\ UNCHANGED <<cur, todo, ret>>
         [] job'.kind = "stopsample" ->
              /\ ClearSourceStart(Drv, job'.x)
              /\ UNCHANGED ret
         [] job'.kind = "play" ->
              /\ AddSampleCheck(Drv, job'.name, job'.repeat, PyInt(job'.id))
              /\ UNCHANGED <<cur, todo>>
    /\ UNCHANGED <<mixer, add_lock, gens, chunks_to_mix, out, driver, pcm, calls, silence_mark,
                   stopped, asm, limit_set>>

\* SounddeviceThread.__init__: the audio thread has made the mixer and entered its loop
PushInit ==
    /\ InitMixer
    /\ driver = "SounddeviceThread"
    /\ pc = [t \in Threads |-> IF t = Drv THEN "get" ELSE "idle"]

PushNext ==
    \/ \E n \in Names, r \in BOOLEAN, a \in 1..NumAddrs : PushPlay(Game, n, r, a)
    \/ \E x \in XArgs : PushSilence(Game, x)
    \/ PushClose(Game)
    \/ \E n \in Names, k \in 0..MaxLimit : SetLimit(Game, n, k)
    \/ GetEmpty
    \/ GetJob
    \/ Acquire(Drv)
    \/ AddBody(Drv)
    \/ ClearBody(Drv)
    \/ NameSnapBody(Drv)
    \/ RemoveBody(Drv)
    \/ ChunksSnapBody
    \/ ChunksNext
    \/ ChunksYield

PushSpec == PushInit /\ [][PushNext]_vars

\* ------------------------------- the callback driver with sounds in flight
\* The game played "a" na times and "b" nb times (one-shot, no limit set) before the
\* callback's first pull, each name either not at all or as often as the default
\* limit admits: the voices are in the dict in the order of the calls, under the
\* sids 1..na+nb.
LoadedVoices(na, nb) ==
    [j \in 1..(na + nb) |-> [sid |-> j, name |-> IF j <= na THEN "a" ELSE "b", gen |-> j]]

LoadedInit ==
    \E na, nb \in {0, DefaultLimit} :
        /\ active_samples = LoadedVoices(na, nb)
        /\ sample_counts = [n \in Names |-> IF n = "a" THEN na ELSE nb]
        /\ sample_limits = [n \in Names |-> 0]
        /\ _sid = na + nb
        /\ gens = [j \in 1..(na + nb) |-> NewGen(active_samples[j].name, FALSE)]
        /\ add_lock = Free
        /\ call = [t \in Threads |-> IF t = Drv THEN ChunksCall ELSE NoCall]
        /\ todo = [t \in Threads |-> <<>>]
        /\ cur = [t \in Threads |-> 0]
        /\ ret = [t \in Threads |-> Ok]
        /\ chunks_to_mix = <<>>
        /\ out = NoChunk
        /\ samp_queue = <<>>
        /\ job = NoJob
        /\ calls = 0
        /\ silence_mark = 0
        /\ stopped = {}
        /\ asm = [mark |-> 0, stopped |-> {}, sid |-> 0]
        /\ limit_set = {}
        /\ sampledata = <<>>
        /\ yielded = <<>>
        /\ params = DefaultParams
        /\ outdata = <<>>
        /\ played = {}
        /\ driver = "Sounddevice"
        /\ pc = [t \in Threads |-> IF t = Drv THEN "snap_lock" ELSE "idle"]

\* the game goes on playing samples and stops none
LoadedNext ==
    \/ \E n \in Names, r \in BOOLEAN : Play(Game, n, r)
    \/ Acquire(Game)
    \/ AddBody(Game)
    \/ CallbackStep

\* PortAudio keeps calling the callback, and a thread inside add_sample's locked
\* block runs on and releases the lock
LoadedSpec ==
    LoadedInit /\ [][LoadedNext]_vars /\ WF_vars(CallbackStep) /\ WF_vars(AddBody(Game))

\* ------------------------------------------- chunked_data, byte by byte
StopIteration == [k |-> "StopIteration", v |-> 0, n |-> ""]
ZeroDivisionError == [k |-> "ZeroDivisionError", v |-> 0, n |-> ""]

\* s[lo:hi] for 0 <= lo <= hi
Slice(s, lo, hi) == SubSeq(s, lo + 1, Min(hi, Len(s)))

\* s * k
RECURSIVE Times(_, _)
Times(s, k) == IF k <= 0 THEN <<>> ELSE s \o Times(s, k - 1)

\* b"\0" * k
Zeros(k) == [j \in 1..k |-> 0]

\* mutant of bdata: sample data shorter than a chunk is not tiled
bdata_once(data, csize) == data

\* repeat: "bdata = self.sampledata; if len(bdata) < chunksize:
\* bdata = bdata * math.ceil(chunksize / len(bdata))"
bdata(data, csize) ==
    IF Len(data) < csize THEN Times(data, CeilDiv(csize, Len(data))) ELSE data

\* the memoryview the generator slices: with repeat "bdata += bdata[:chunksize]"
mdata(g, data) ==
    IF g.repeat
    THEN bdata(data, g.chunksize) \o Slice(bdata(data, g.chunksize), 0, g.chunksize)
    ELSE data

\* mutant of Raised: the one-shot loop stops when less than a full chunk is left
Raised_tail(g, data) ==
    IF g.repeat
    THEN IF Len(data) = 0 THEN ZeroDivisionError ELSE Ok
    ELSE IF g.i + g.chunksize <= Len(data) THEN Ok ELSE StopIteration

\* what next(generator) raises, Ok if it yields: the repeat branch divides by
\* len(bdata) when the data is shorter than a chunk; the one-shot loop
\* "while i < len(mdata)" ends
Raised(g, data) ==
    IF g.repeat
    THEN IF Len(data) = 0 THEN ZeroDivisionError ELSE Ok
    ELSE IF g.i < Len(data) THEN Ok ELSE StopIteration

\* "yield mdata[i: i + chunksize]"
Chunk(g, data) == Slice(mdata(g, data), g.i, g.i + g.chunksize)

\* "i = (i + chunksize) % length" / "i += chunksize"
Stepped(g, data) ==
    IF g.repeat
    THEN [g EXCEPT !.i = (g.i + g.chunksize) % Len(bdata(data, g.chunksize))]
    ELSE [g EXCEPT !.i = g.i + g.chunksize]

\* mutant of PaddedChunk: the silence goes in front of the chunk
PaddedChunk_front(chunk) ==
    IF Len(chunk) < chunksize
    THEN Slice(Zeros(chunksize), 0, chunksize - Len(chunk)) \o chunk
    ELSE chunk

\* chunks(): "if len(chunk) < self.chunksize:
\* chunk = memoryview(chunk.tobytes() + silence[:self.chunksize - len(chunk)])"
PaddedChunk(chunk) ==
    IF Len(chunk) < chunksize
    THEN chunk \o Slice(Zeros(chunksize), 0, chunksize - Len(chunk))
    ELSE chunk

\* mutant of TooLong: the length test is left out
TooLong_never(chunk) == FALSE

\* chunks(): "if len(chunk) > self.chunksize: raise ValueError(..)"
TooLong(chunk) == Len(chunk) > chunksize

\* sample data of up to MaxBuf bytes
RECURSIVE BytesOfLen(_)
BytesOfLen(k) == IF k = 0 THEN {<<>>}
                 ELSE {Append(s, b) : s \in BytesOfLen(k - 1), b \in 0..MaxByte}
Buffers == UNION {BytesOfLen(k) : k \in 0..MaxBuf}

\* A sample with some data is made; either its chunked_data(csize, repeat) is
\* iterated by the caller, or it is the one voice (sid 1) added to a new mixer whose
\* chunks are then pulled.  In the mixer the generator's chunksize is the mixer's
\* for a BCSample; it is another one for a sample object whose chunked_data cuts
\* chunks of its own size.
ChunkInit ==
    /\ sample_limits = [n \in Names |-> 0]
    /\ add_lock = Free
    /\ call = [t \in Threads |-> NoCall]
    /\ todo = [t \in Threads |-> <<>>]
    /\ cur = [t \in Threads |-> 0]
    /\ ret = [t \in Threads |-> Ok]
    /\ chunks_to_mix = <<>>
    /\ out = NoChunk
    /\ samp_queue = <<>>
    /\ job = NoJob
    /\ calls = 0
    /\ silence_mark = 0
    /\ stopped = {}
    /\ asm = [mark |-> 0, stopped |-> {}, sid |-> 0]
    /\ limit_set = {}
    /\ sampledata \in Buffers
    /\ yielded = <<>>
    /\ params = DefaultParams
    /\ outdata = <<>>
    /\ played = {}
    /\ \E csize \in 1..MaxChunk, repeat \in BOOLEAN :
         gens = <<[name |-> "a", len |-> Len(sampledata), repeat |-> repeat, i |-> 0,
                   chunksize |-> csize]>>
    /\ \/ /\ driver = "none"
          /\ active_samples = <<>>
          /\ sample_counts = [n \in Names |-> 0]
          /\ _sid = 0
          /\ pc = [t \in Threads |-> IF t = Game THEN "next" ELSE "idle"]
       \/ /\ driver = "Sounddevice"
          /\ active_samples = <<[sid |-> 1, name |-> "a", gen |-> 1]>>
          /\ sample_counts = [n \in Names |-> IF n = "a" THEN 1 ELSE 0]
          /\ _sid = 1
          /\ pc = [t \in Threads |-> IF t = Drv THEN "mix" ELSE "idle"]

\* the caller's next(generator)
GenNext ==
    /\ pc[Game] = "next"
    /\ Len(yielded) < MaxPulls
    /\ LET g == gens[1]
       IN IF Raised(g, sampledata) = Ok
          THEN /\ yielded' = Append(yielded, Chunk(g, sampledata))
               /\ gens' = <<Stepped(g, sampledata)>>
               /\ UNCHANGED <<pc, ret>>
          ELSE /\ ret' = [ret EXCEPT ![Game] = Raised(g, sampledata)]
               /\ pc' = [pc EXCEPT ![Game] = "idle"]
               /\ UNCHANGED <<yielded, gens>>
    /\ UNCHANGED <<mixer, add_lock, call, todo, cur, chunks_to_mix, out, driver, samp_queue, job,
                   calls, silence_mark, stopped, asm, limit_set, sampledata, params, outdata,
                   played>>

\* One round of "while True" in chunks(), by the only thread there is: the voice's
\* chunk is checked and padded, or StopIteration and remove_sample; an empty
\* chunks_to_mix becomes one chunk of silence; the assertion; with one chunk to mix
\* "mixed = chunks_to_mix[0]" is yielded as it is.  An exception ends the generator.
MixNext ==
    /\ pc[Drv] = "mix"
    /\ Len(yielded) < MaxPulls
    /\ LET g == gens[1]
           raised == IF active_samples = <<>> THEN StopIteration ELSE Raised(g, sampledata)
           chunk == Chunk(g, sampledata)
           mixed == IF raised = Ok THEN PaddedChunk(chunk) ELSE Zeros(chunksize)
           error == IF raised = ZeroDivisionError THEN ZeroDivisionError
                    ELSE IF raised = Ok /\ TooLong(chunk) THEN ValueError
                    ELSE IF Len(mixed) # chunksize THEN AssertionError
                    ELSE Ok
       IN /\ gens' = IF raised = Ok THEN <<Stepped(g, sampledata)>> ELSE gens
          /\ IF raised = StopIteration /\ active_samples # <<>>
             THEN /\ active_samples' = DictDel(active_samples, 1)
                  /\ sample_counts' = Decremented(sample_counts, "a")
             ELSE UNCHANGED <<active_samples, sample_counts>>
          /\ IF error = Ok
             THEN /\ yielded' = Append(yielded, mixed)
                  /\ UNCHANGED <<pc, ret>>
             ELSE /\ ret' = [ret EXCEPT ![Drv] = error]
                  /\ pc' = [pc EXCEPT ![Drv] = "dead"]
                  /\ UNCHANGED yielded
    /\ UNCHANGED <<sample_limits, _sid, add_lock, call, todo, cur, chunks_to_mix, out, driver,
                   samp_queue, job, calls, silence_mark, stopped, asm, limit_set, sampledata,
                   params, outdata,
                   played>>

ChunkNext == GenNext \/ MixNext

ChunkSpec == ChunkInit /\ [][ChunkNext]_vars

\* ================================================================== claims
\* number of active voices that carry a name
ActiveNamed(name) == Cardinality(VoicesNamed(active_samples, name))

\* chunks() has taken its snapshot and is assembling a chunk from it
Assembling == call[Drv].op = "chunks" /\ pc[Drv] \in {"pull", "rm_lock", "rm_cs"}

\* the generators the chunk in assembly will still pull from or has pulled from
AssemblyGens == {todo[Drv][j].gen : j \in DOMAIN todo[Drv]}
                \cup {chunks_to_mix[j].gen : j \in DOMAIN chunks_to_mix}

\* C1: every chunk the mixer yields is exactly chunksize bytes long, and the length
\* checks in chunks() (the ValueError for a long chunk, the assertion after padding)
\* never fire for sources that yield at most chunksize bytes.
C1_ChunkLength ==
    /\ out.valid => out.len = chunksize
    /\ ret[Drv] \notin {ValueError, AssertionError}

\* C1 witness: a chunk mixed from two voices, one of which gave a short chunk
C1_Witness == out.valid /\ out.n >= 2 /\ out.short /\ out.len = chunksize

\* C2 (as claimed): whatever the game's thread does while the callback thread
\* assembles a chunk, the chunk pull never ends in an error, so the mixer's
\* generator stays alive.
C2_PullNeverFails == pc[Drv] # "dead"

\* the per-name limit as the claims read it: the value given to set_limit, 4 when
\* set_limit was never called for the name
StatedLimit(name) == IF name \in limit_set THEN sample_limits[name] ELSE DefaultLimit

RejectCase(name, repeat) ==
    \/ repeat /\ ActiveNamed(name) >= 1
    \/ ActiveNamed(name) >= StatedLimit(name)
    \/ Len(active_samples) >= MaxVoices

\* C3 (as claimed): add returns None exactly when the sample repeats and its name
\* is active, or the name has reached its limit (4 when unset), or 8 voices are active.
C3_AddReturnsNoneExactly ==
    [][\A n \in Names, r \in BOOLEAN :
         Play(Game, n, r) => ((ret'[Game] = None) <=> RejectCase(n, r))]_vars

\* C4 (as claimed): with threads adding concurrently there are never more than 8
\* voices, never more voices of a name than its limit, and never two repeating
\* voices of one name.
C4_AdmissionAtomic ==
    /\ Len(active_samples) <= MaxVoices
    /\ \A n \in Names : n \notin limit_set => ActiveNamed(n) <= DefaultLimit
    /\ \A n \in Names :
         Cardinality({j \in VoicesNamed(active_samples, n) : gens[active_samples[j].gen].repeat}) <= 1

\* C5 (as claimed): whenever nobody holds the lock, each name's count is the number
\* of active voices of that name.
C5_CountsMatchVoices ==
    add_lock = Free => \A n \in Names : sample_counts[n] = ActiveNamed(n)

\* C6 (as claimed): remove_sample for a sid that is not in the dict returns
\* normally and changes nothing.
C6_RemoveIdempotent ==
    [][(RemoveBody(Game) /\ cur[Game] \notin Sids(active_samples))
         => (ret'[Game] # KeyError /\ UNCHANGED mixer)]_vars

\* a voice that stop(x) is meant to remove
Matches(e, x) == (x.k = "int" /\ e.sid = x.v) \/ (x.k = "str" /\ e.name = x.n)
Entries(as) == {as[j] : j \in DOMAIN as}

\* C7 (as claimed): a call silence_audio(x) with an argument removes only voices
\* whose sid or name is x; with x the None of a rejected play it removes nothing.
C7_StopRemovesOnlyMatching ==
    [][(add_lock = Game /\ add_lock' = Free /\ call[Game].op \in {"silence", "stop_sid", "stop_name"}
          /\ call[Game].x # NoArg)
         => \A e \in Entries(active_samples) \ Entries(active_samples') : Matches(e, call[Game].x)]_vars

\* C8, the state: every voice in the dict was admitted after the last clear_sources
\* (so the dict and the counts are empty when it returns), the counts count only such
\* voices, and a chunk whose snapshot was taken after a clear_sources is assembled
\* only from voices admitted after it: from none if there was no later admission.
C8_AfterSilence ==
    /\ \A j \in DOMAIN active_samples : active_samples[j].gen > silence_mark
    /\ \A n \in Names : sample_counts[n] =
           Cardinality({j \in VoicesNamed(active_samples, n) : active_samples[j].gen > silence_mark})
    /\ (silence_mark = _sid) => (active_samples = <<>> /\ \A n \in Names : sample_counts[n] = 0)
    /\ Assembling => \A g \in AssemblyGens : g > asm.mark
    /\ (Assembling /\ asm.mark = _sid) => AssemblyGens = {}

\* C8, the step: clear_sources on a mixer with no voice and no count changes nothing
C8_SilenceOnEmpty ==
    (ClearBody(Game) /\ active_samples = <<>> /\ \A n \in Names : sample_counts[n] = 0)
    => UNCHANGED <<mixer, gens>>

\* C8: after silence() the voice dict and the counts are empty, a chunk whose assembly
\* starts afterwards holds only voices admitted after the call (C zero bytes if there
\* are none), and silence() on an empty mixer changes nothing.
C8_SilenceCuts == []C8_AfterSilence /\ [][C8_SilenceOnEmpty]_vars

\* C8 witness: a chunk in assembly after a silence that cut a voice holds a voice
\* admitted after that silence
C8_Witness ==
    /\ Assembling /\ todo[Drv] = <<>>
    /\ asm.mark >= 1
    /\ \E j \in DOMAIN chunks_to_mix : chunks_to_mix[j].gen > asm.mark

\* C9 (as claimed): a chunk the mixer yields holds no audio of a voice admitted
\* before a clear_sources that completed before the yield.
C9_NoStaleVoiceInChunk ==
    [][ChunksYield => \A j \in DOMAIN chunks_to_mix : chunks_to_mix[j].gen > silence_mark]_vars

\* C10, the step: remove_sample for an active sid, called for stop(sid), deletes that
\* entry and no other, takes one off its name's count and leaves the other counts,
\* the limits and the other generators alone.
C10_StopStep ==
    (RemoveBody(Game) /\ call[Game].op = "stop_sid" /\ cur[Game] \in Sids(active_samples))
    => LET e == Entry(active_samples, cur[Game])
       IN /\ Entries(active_samples') = Entries(active_samples) \ {e}
          /\ Len(active_samples') = Len(active_samples) - 1
          /\ sample_counts'[e.name] = sample_counts[e.name] - 1
          /\ \A n \in Names \ {e.name} : sample_counts'[n] = sample_counts[n]
          /\ sample_limits' = sample_limits
          /\ \A f \in Entries(active_samples') : gens'[f.gen] = gens[f.gen]

\* C10, afterwards: a stopped voice is not in the dict, and a chunk whose snapshot was
\* taken after the stop is not assembled from it.
C10_StoppedStaysOut ==
    /\ \A j \in DOMAIN active_samples : active_samples[j].gen \notin stopped
    /\ Assembling => AssemblyGens \cap asm.stopped = {}

\* C10: after stop(id) for an active id the voice is gone, its name's count is one
\* less, nothing else changed, and no chunk whose assembly starts afterwards
\* contains the voice.
C10_StopById == [][C10_StopStep]_vars /\ []C10_StoppedStaysOut

\* C10 witness: a chunk assembled after a stop(id) holds the voice that was not stopped
C10_Witness ==
    /\ Assembling /\ todo[Drv] = <<>>
    /\ asm.stopped # {}
    /\ chunks_to_mix # <<>>

\* C11 (as claimed): the id under which add_sample admits a voice is greater than
\* every id admitted before it, whether the mixer allocated it or play() supplied it,
\* so it is never the id of a voice that is still active.
C11_IdsIncrease ==
    [][\A t \in Threads :
         AddBody(t) => \A s \in Sids(active_samples) : ret'[t].v > s]_vars

\* the active voices of a name that repeat
RepeatingNamed(name) ==
    {j \in VoicesNamed(active_samples, name) : gens[active_samples[j].gen].repeat}

\* C12, the state: no name has two repeating voices
C12_OneRepeating == \A n \in Names : Cardinality(RepeatingNamed(n)) <= 1

\* C12, the step: while a name has a repeating voice, play(name, repeat=True) returns
\* None, and play(name, repeat=False) goes on to insert a voice when the name is below
\* its limit and fewer than 8 voices are active; the insertion adds one voice.
C12_RepeatStep ==
    /\ \A n \in Names, r \in BOOLEAN :
         (Play(Game, n, r) /\ RepeatingNamed(n) # {}) =>
            /\ r => ret'[Game] = None
            /\ (~r /\ ActiveNamed(n) < StatedLimit(n) /\ Len(active_samples) < MaxVoices)
                 => (ret'[Game] = Pending /\ pc'[Game] = "add_lock")
    /\ AddBody(Game) => (Len(active_samples') = Len(active_samples) + 1 /\ ret'[Game].k = "int")

\* C12: with one thread adding, at most one repeating voice per name is active; a
\* second repeating add of the name is rejected, a one-shot add of it is admitted
\* when the limit and the cap allow.
C12_RepeatExclusive == []C12_OneRepeating /\ [][C12_RepeatStep]_vars

\* C12 witness: a name has a repeating voice and a one-shot voice admitted next to
\* it, and a further repeating add of the name was rejected
C12_Witness ==
    \E n \in Names :
        /\ Cardinality(RepeatingNamed(n)) = 1
        /\ ActiveNamed(n) = 2
        /\ ret[Game] = None
        /\ pc[Game] = "idle"

\* the number of chunks a one-shot generator yields before it is exhausted
NumChunks(g) == CeilDiv(g.len, chunksize)

\* C13, the step: the mixer removes a voice when next() on its generator raised
\* StopIteration, which for a one-shot source of n chunks is the pull after the
\* n-th chunk; it deletes that entry and takes one off the name's count.  A chunk is
\* yielded with no exhausted voice left in the dict other than those whose last
\* chunk is in it.
C13_ExhaustStep ==
    /\ (RemoveBody(Drv) /\ call[Drv].op = "chunks") =>
         /\ cur[Drv] \in Sids(active_samples)
         /\ LET e == Entry(active_samples, cur[Drv])
                g == gens[e.gen]
            IN /\ ~g.repeat /\ g.i = NumChunks(g) * chunksize
               /\ Entries(active_samples') = Entries(active_samples) \ {e}
               /\ sample_counts' = [sample_counts EXCEPT ![e.name] = @ - 1]
    /\ ChunksYield =>
         \A j \in DOMAIN active_samples :
            Exhausted(gens[active_samples[j].gen])
              => \E k \in DOMAIN chunks_to_mix : chunks_to_mix[k].gen = active_samples[j].gen
    /\ \A n \in Names, r \in BOOLEAN :
         (Play(Game, n, r) /\ active_samples = <<>>) => ret'[Game] = Pending

\* C13, the state: a voice is never pulled past its last chunk, and with no voice
\* left every count is zero
C13_Drained ==
    /\ \A j \in DOMAIN active_samples :
         LET g == gens[active_samples[j].gen]
         IN ~g.repeat => g.i <= NumChunks(g) * chunksize
    /\ active_samples = <<>> => \A n \in Names : sample_counts[n] = 0

\* C13: while the callback keeps pulling and nobody stops a voice, every one-shot
\* voice is removed in the pull in which its generator is exhausted and its count
\* goes down by one, so in the end only repeating voices are left; with no voice
\* left the counts are zero and the next add is admitted.
C13_OneShotExhausted ==
    /\ []C13_Drained
    /\ [][C13_ExhaustStep]_vars
    /\ <>[](\A j \in DOMAIN active_samples : gens[active_samples[j].gen].repeat)

\* C13 witness: eight one-shot voices were admitted and exhausted, and the ninth
\* add was admitted into the empty mixer
C13_Witness ==
    /\ _sid = MaxVoices + 1
    /\ Sids(active_samples) = {MaxVoices + 1}
    /\ \A n \in Names : sample_counts[n] = ActiveNamed(n)

\* C18, the step: an add that returns None changes nothing in the mixer (voices,
\* generators, counts, limits, _sid); an add with 8 voices active returns None; and
\* _sid changes only in an admission, by one, to the sid that is returned.
C18_RejectStep ==
    /\ \A n \in Names, r \in BOOLEAN :
         Play(Game, n, r) =>
            /\ ret'[Game] = None => UNCHANGED <<mixer, gens, add_lock, todo, chunks_to_mix, out>>
            /\ Len(active_samples) >= MaxVoices => ret'[Game] = None
    /\ _sid' # _sid => (AddBody(Game) /\ _sid' = _sid + 1 /\ ret'[Game] = PyInt(_sid'))

\* C18: a rejected add returns None and leaves the mixer as it was, so the sids of
\* the admissions are consecutive.
C18_RejectedAddFrame == [][C18_RejectStep]_vars

\* C18 witness: a ninth add was rejected with eight voices active
C18_Witness ==
    /\ Len(active_samples) = MaxVoices
    /\ ret[Game] = None
    /\ pc[Game] = "idle"

\* C17 (as claimed): stop(name) removes the voices that carried the name when it took
\* its snapshot and no others: each removal it makes is of a voice of that name, and
\* when the call is over none of the snapshot's voices of that name is active.
C17_StopByName ==
    [][(call[Game].op = "stop_name" /\ pc[Game] = "rm_cs") =>
         /\ \A e \in Entries(active_samples) \ Entries(active_samples') : e.name = call[Game].x.n
         /\ pc'[Game] = "idle" =>
              \A j \in DOMAIN todo[Game] : todo[Game][j] \notin Entries(active_samples')]_vars

\* C19 (as claimed): after set_limit(name, n) an add of the name is admitted only
\* while fewer than n voices of the name are active, for n = 0 as for any other n.
C19_LimitHonoured ==
    [][\A n \in Names, r \in BOOLEAN :
         (Play(Game, n, r) /\ n \in limit_set /\ ret'[Game] # None)
            => ActiveNamed(n) < sample_limits[n]]_vars

\* the chunks a consumer received, joined
RECURSIVE Concat(_)
Concat(cs) == IF cs = <<>> THEN <<>> ELSE Head(cs) \o Concat(Tail(cs))

\* the caller iterates the generator itself / the generator is a mixer's voice
Direct == driver = "none"
Mixed == driver = "Sounddevice" /\ pc[Drv] \in {"mix", "dead"}

\* C14: a one-shot chunked_data over n bytes with chunk size C yields the data in
\* order, in chunks of C bytes but for a last chunk of n mod C bytes when that is not
\* zero, and ends after ceil(n / C) chunks, when the chunks joined are the data.
C14_OneShotChunks ==
    (Direct /\ ~gens[1].repeat) =>
        LET n == Len(sampledata)
            C == gens[1].chunksize
        IN /\ Len(yielded) <= CeilDiv(n, C)
           /\ \A k \in DOMAIN yielded :
                Len(yielded[k]) = IF k = CeilDiv(n, C) /\ n % C # 0 THEN n % C ELSE C
           /\ Concat(yielded) = SubSeq(sampledata, 1, Len(Concat(yielded)))
           /\ ret[Game] # ZeroDivisionError
           /\ ret[Game] = StopIteration =>
                (Len(yielded) = CeilDiv(n, C) /\ Concat(yielded) = sampledata)

\* C14 witness: a one-shot generator has ended after two or more chunks, the last of
\* them short
C14_Witness ==
    /\ Direct /\ ~gens[1].repeat
    /\ ret[Game] = StopIteration
    /\ Len(yielded) >= 2
    /\ Len(yielded[Len(yielded)]) < gens[1].chunksize

\* C15: a repeating chunked_data over n >= 1 bytes never ends, every chunk has C
\* bytes, and byte k of the chunks joined is byte k mod n of the data.
C15_RepeatChunks ==
    (Direct /\ gens[1].repeat /\ sampledata # <<>>) =>
        LET n == Len(sampledata)
            stream == Concat(yielded)
        IN /\ pc[Game] = "next" /\ ret[Game] = Ok
           /\ \A k \in DOMAIN yielded : Len(yielded[k]) = gens[1].chunksize
           /\ \A k \in DOMAIN stream : stream[k] = sampledata[((k - 1) % n) + 1]

\* C15 witness: two or more chunks of a repeating sample shorter than a chunk whose
\* length does not divide the chunk size, with two different bytes in it
C15_Witness ==
    /\ Direct /\ gens[1].repeat
    /\ Len(sampledata) >= 2
    /\ Len(sampledata) < gens[1].chunksize
    /\ gens[1].chunksize % Len(sampledata) # 0
    /\ \E j, k \in DOMAIN sampledata : sampledata[j] # sampledata[k]
    /\ Len(yielded) >= 2

\* C16: with one one-shot BCSample voice of n bytes the mixer's chunks all have
\* chunksize bytes, and joined they are the data followed by zero bytes: the data
\* ends in chunk ceil(n / chunksize), padded with zeros, and every later chunk is
\* silence.
C16_SingleVoiceBytes ==
    (Mixed /\ ~gens[1].repeat /\ gens[1].chunksize = chunksize) =>
        LET n == Len(sampledata)
            stream == Concat(yielded)
        IN /\ pc[Drv] = "mix"
           /\ \A k \in DOMAIN yielded : Len(yielded[k]) = chunksize
           /\ \A k \in DOMAIN stream : stream[k] = IF k <= n THEN sampledata[k] ELSE 0
           /\ active_samples # <<>> => Len(yielded) <= CeilDiv(n, chunksize)

\* C16 witness: the sample is longer than a chunk and ends inside a chunk with a
\* byte that is not zero, and the mixer has yielded a chunk after the padded one
C16_Witness ==
    /\ Mixed /\ ~gens[1].repeat /\ gens[1].chunksize = chunksize
    /\ Len(sampledata) > chunksize
    /\ Len(sampledata) % chunksize # 0
    /\ sampledata[Len(sampledata)] # 0
    /\ Len(yielded) > CeilDiv(Len(sampledata), chunksize)

\* C20, the step: a pull in which the voice's chunk is longer than chunksize raises
\* ValueError and delivers nothing
C20_OversizeStep ==
    (MixNext /\ active_samples # <<>> /\ Raised(gens[1], sampledata) = Ok
       /\ Len(Chunk(gens[1], sampledata)) > chunksize)
    => (ret'[Drv] = ValueError /\ pc'[Drv] = "dead" /\ yielded' = yielded)

\* C20, the state: no chunk of another length than chunksize is ever delivered
C20_NoOddChunk == Mixed => \A k \in DOMAIN yielded : Len(yielded[k]) = chunksize

\* C20: when a voice yields a chunk longer than chunksize the pull fails with an
\* error, and neither that chunk nor a cut of it is delivered.
C20_OversizeIsFatal == [][C20_OversizeStep]_vars /\ []C20_NoOddChunk

\* C20 witness: the pull failed with ValueError on a voice whose chunks are longer
\* than the mixer's
C20_Witness ==
    /\ Mixed /\ gens[1].chunksize > chunksize
    /\ ret[Drv] = ValueError
    /\ pc[Drv] = "dead"

\* ------------------------------------------------------------ the mix of the chunks

\* largest sample width whose frames are enumerated
MaxWidth == 4
\* most chunks mixed in one round
MaxMix == 2

\* the byte values the mixed chunks are built from: the largest positive and the
\* largest negative high byte
MixBytes == {127, 128}

AudioopError == [k |-> "audioop.error", v |-> 0, n |-> ""]

\* every variable the steps on bytes leave alone, as it is before anything was played
AtRest ==
    /\ sample_limits = [n \in Names |-> 0]
    /\ add_lock = Free
    /\ call = [t \in Threads |-> NoCall]
    /\ todo = [t \in Threads |-> <<>>]
    /\ cur = [t \in Threads |-> 0]
    /\ ret = [t \in Threads |-> Ok]
    /\ out = NoChunk
    /\ samp_queue = <<>>
    /\ job = NoJob
    /\ calls = 0
    /\ silence_mark = 0
    /\ stopped = {}
    /\ asm = [mark |-> 0, stopped |-> {}, sid |-> 0]
    /\ limit_set = {}

RECURSIVE Carry(_, _, _)
\* the carry into byte k when two little-endian integers are added byte by byte
Carry(a, b, k) == IF k = 1 THEN 0 ELSE (a[k - 1] + b[k - 1] + Carry(a, b, k - 1)) \div 256

\* the sum of two integers of Len(a) bytes, reduced to Len(a) bytes
Wrapped(a, b) == [k \in 1..Len(a) |-> (a[k] + b[k] + Carry(a, b, k)) % 256]

Negative(s) == s[Len(s)] >= 128
maxval(width) == [k \in 1..width |-> IF k = width THEN 127 ELSE 255]
minval(width) == [k \in 1..width |-> IF k = width THEN 128 ELSE 0]

\* audioop's sum of one pair of samples: the integer sum, clamped to the signed
\* range of the width (the sum left the range exactly when both operands have one
\* sign and the reduced sum has the other)
AddSample(a, b) ==
    LET r == Wrapped(a, b)
    IN IF Negative(a) = Negative(b) /\ Negative(r) # Negative(a)
       THEN IF Negative(a) THEN minval(Len(a)) ELSE maxval(Len(a))
       ELSE r

\* audioop.add(fragment1, fragment2, width) raises audioop.error: "not a whole
\* number of frames", "Lengths should be the same"
add_raises(fragment1, fragment2, width) ==
    Len(fragment1) % width # 0 \/ Len(fragment1) # Len(fragment2)

\* audioop.add(fragment1, fragment2, width), when it does not raise
audioop_add(fragment1, fragment2, width) ==
    [k \in 1..Len(fragment1) |->
        LET lo == ((k - 1) \div width) * width
        IN AddSample(SubSeq(fragment1, lo + 1, lo + width),
                     SubSeq(fragment2, lo + 1, lo + width))[k - lo]]

RECURSIVE MixAll(_, _, _)
\* "for to_mix in chunks_to_mix[1:]: mixed = audioop.add(mixed, to_mix, width)"
MixAll(mixed, rest, width) ==
    IF rest = <<>> THEN mixed
    ELSE MixAll(audioop_add(mixed, Head(rest), width), Tail(rest), width)

\* the loop raises at the first addend audioop.add refuses; a sum is as long as
\* its operands
MixRaises(to_mix, width) ==
    \E j \in 2..Len(to_mix) : add_raises(to_mix[1], to_mix[j], width)

\* what chunks() does with the chunks it gathered
mixed_chunk(to_mix, prm) == MixAll(to_mix[1], Tail(to_mix), prm.norm_nchannels)

\* the frames of one chunk: one frame of every geometry
MixInit ==
    /\ AtRest
    /\ driver = "Sounddevice"
    /\ active_samples = <<>>
    /\ sample_counts = [n \in Names |-> 0]
    /\ _sid = 0
    /\ gens = <<>>
    /\ pc = [t \in Threads |-> IF t = Drv THEN "add" ELSE "idle"]
    /\ sampledata = <<>>
    /\ yielded = <<>>
    /\ outdata = <<>>
    /\ played = {}
    /\ params \in [norm_samplewidth : 1..MaxWidth, norm_nchannels : {1, 2}]
    /\ \E k \in 1..MaxMix :
         chunks_to_mix \in [1..k -> [1..params.norm_samplewidth * params.norm_nchannels -> MixBytes]]

\* chunks(): the mix of chunks_to_mix is yielded
MixStep ==
    /\ pc[Drv] = "add"
    /\ LET mixed == mixed_chunk(chunks_to_mix, params)
       IN IF MixRaises(chunks_to_mix, params.norm_nchannels)
          THEN /\ ret' = [ret EXCEPT ![Drv] = AudioopError]
               /\ pc' = [pc EXCEPT ![Drv] = "dead"]
               /\ UNCHANGED yielded
          ELSE /\ yielded' = <<mixed>>
               /\ pc' = [pc EXCEPT ![Drv] = "idle"]
               /\ UNCHANGED ret
    /\ UNCHANGED <<mixer, add_lock, gens, call, todo, cur, chunks_to_mix, out, driver, samp_queue,
                   job, calls, silence_mark, stopped, asm, limit_set, sampledata, params, outdata,
                   played>>

MixSpec == MixInit /\ [][MixStep]_vars

\* C21: for every geometry (sample width 1..4, one or two channels) the chunk the
\* mixer yields is the left-to-right sum of the gathered chunks, sample by sample of
\* sample-width bytes, every partial sum clamped to the signed range of that width.
C21_MixIsSaturatingSum ==
    (pc[Drv] = "idle" /\ yielded # <<>>)
        => yielded[1] = MixAll(chunks_to_mix[1], Tail(chunks_to_mix), params.norm_samplewidth)

\* ------------------------------------------------------------ the audio thread's life

\* close() has returned: its "stop" job is in the queue or was the last one taken
CloseReturned ==
    \/ \E j \in DOMAIN samp_queue : samp_queue[j].kind = "stop"
    \/ job.kind = "stop"

Terminated == pc[Drv] \in {"exited", "dead"}

\* C23: on a push driver the audio thread has terminated by the time close() has
\* returned, so that nothing is written to the device after it.
C23_CloseJoins == CloseReturned => Terminated

\* C26: the audio thread of a push driver ends only by taking the close command
\* from the queue: whatever play, stop and silence commands it is given, it has not
\* terminated unless the job it took last is "stop".
C26_EndsOnlyByClose == Terminated => job.kind = "stop"

\* C27: when the audio thread goes on to pull a chunk, no command that was in the
\* queue when that round of its loop began is left there: the round that took a
\* play job leaves the queue empty.
C27_DrainedBeforePull == [][(GetJob /\ job'.kind = "play") => samp_queue' = <<>>]_vars

\* ------------------------------------------------------------ the lock

\* the blocks under "with self.add_lock:"
UnderLock == {"add_cs", "clear_cs", "snap_cs", "rm_cs"}

\* C28: the mixer's lock is held only inside the blocks that read or change the
\* maps: the thread that pulls the voices' chunks, mixes them and hands the chunk
\* to the device does not hold it, and a thread that waits for the lock does not
\* hold it already.
C28_LockOnlyForMaps ==
    /\ \A t \in Threads : add_lock = t => pc[t] \in UnderLock
    /\ pc[Drv] = "pull" => add_lock # Drv
    /\ \A t \in Threads : pc[t] \in LockWait => add_lock # t

\* a chunk is being pulled from a voice while the game is inside add_sample's block
C28_Witness ==
    /\ pc[Drv] = "pull" /\ todo[Drv] # <<>>
    /\ add_lock = Game /\ pc[Game] = "add_cs"

\* ------------------------------------------------------------ add against the snapshot

\* the round of chunks() has pulled every voice of its snapshot: the chunk is complete
ChunkComplete == call[Drv].op = "chunks" /\ pc[Drv] = "pull" /\ todo[Drv] = <<>>

\* the voices whose add_sample had returned when the round took its snapshot
AddedBefore == {j \in DOMAIN active_samples : active_samples[j].gen <= asm.sid}

\* C25: a voice whose add_sample returned before the round's snapshot, and that has
\* not been removed, has a chunk in the round's mix; so a voice added while chunk k
\* is assembled is in chunk k + 1 at the latest.
C25_AddedIsHeard ==
    ChunkComplete =>
        \A j \in AddedBefore : \E c \in DOMAIN chunks_to_mix :
            chunks_to_mix[c].gen = active_samples[j].gen

\* a complete chunk with a voice added before its snapshot, and another voice added
\* while it was assembled
C25_Witness ==
    /\ ChunkComplete
    /\ AddedBefore # {}
    /\ \E j \in DOMAIN active_samples : active_samples[j].gen > asm.sid

\* ------------------------------------------------------------ the full queue

\* the audio thread is at the top of its loop and the queue has room for one more
\* job: the game has put maxsize - 1 silence jobs since the thread's last get_nowait
FullInit ==
    /\ active_samples = <<>>
    /\ sample_counts = [n \in Names |-> 0]
    /\ sample_limits = [n \in Names |-> 0]
    /\ _sid = 0
    /\ add_lock = Free
    /\ gens = <<>>
    /\ call = [t \in Threads |-> IF t = Drv THEN ChunksCall ELSE NoCall]
    /\ todo = [t \in Threads |-> <<>>]
    /\ cur = [t \in Threads |-> 0]
    /\ ret = [t \in Threads |-> Ok]
    /\ chunks_to_mix = <<>>
    /\ out = NoChunk
    /\ samp_queue = [j \in 1..maxsize - 1 |-> [NoJob EXCEPT !.kind = "silence", !.seq = j - maxsize]]
    /\ job = NoJob
    /\ calls = 0
    /\ silence_mark = 0
    /\ stopped = {}
    /\ asm = [mark |-> 0, stopped |-> {}, sid |-> 0]
    /\ limit_set = {}
    /\ sampledata = <<>>
    /\ yielded = <<>>
    /\ params = DefaultParams
    /\ outdata = <<>>
    /\ played = {}
    /\ driver = "SounddeviceThread"
    /\ pc = [t \in Threads |-> IF t = Drv THEN "get" ELSE "idle"]

FullNext ==
    \/ \E a \in 1..NumAddrs : PushPlay(Game, "a", FALSE, a)
    \/ PushSilence(Game, NoArg)
    \/ PushClose(Game)
    \/ GetEmpty
    \/ GetJob
    \/ Acquire(Drv)
    \/ AddBody(Drv)
    \/ ClearBody(Drv)
    \/ ChunksSnapBody
    \/ ChunksNext
    \/ ChunksYield

FullSpec == FullInit /\ [][FullNext]_vars

\* C22: with the queue of a push driver full, a control operation does not wait:
\* the caller's call can return (with a failure, the command dropped) while the
\* queue is still full.
C22_FullQueueNoWait ==
    (Len(samp_queue) = maxsize /\ pc[Game] = "idle" /\ calls < MaxCalls)
        => ENABLED PushClose(Game)

\* ------------------------------------------------------------ play, then stop of its id

\* a push driver whose game plays samples and stops the ids play returned
QueueNext ==
    \/ \E n \in Names, r \in BOOLEAN, a \in 1..NumAddrs : PushPlay(Game, n, r, a)
    \/ \E a \in 1..NumAddrs : PushSilence(Game, PyInt(a))
    \/ GetEmpty
    \/ GetJob
    \/ Acquire(Drv)
    \/ AddBody(Drv)
    \/ RemoveBody(Drv)
    \/ ChunksSnapBody
    \/ ChunksNext
    \/ ChunksYield

QueueSpec == PushInit /\ [][QueueNext]_vars

\* the audio thread takes the jobs in the order they were put, none passed over
C24_InOrder == [][GetJob => job'.seq = job.seq + 1]_vars

\* no chunk the mixer holds for the round is of a voice that was added under an id
\* a stop of which the audio thread has applied since
C24_StoppedIdSilent ==
    \A c \in DOMAIN chunks_to_mix : \A p \in played :
        p.gen = chunks_to_mix[c].gen => ~p.cut

\* C24: on a push driver the game's commands are applied in the order they were
\* issued, and after the stop of an id play returned has been applied no chunk holds
\* audio of a voice added under that id.
C24_PlayThenStop == C24_InOrder /\ []C24_StoppedIdSilent

\* a chunk is complete that holds a voice, after the stop of an id was applied to
\* the voice added under it
C24_Witness ==
    /\ driver = "SounddeviceThread"
    /\ ChunkComplete /\ chunks_to_mix # <<>>
    /\ \E p \in played : p.cut

\* ------------------------------------------------------------ synthesized samples

\* the tones one generator sample is rendered from ("for n in range(0, 180)")
NumTones == 2
\* most values one tone's oscillator produces
MaxVals == 2
\* largest chunk size asked of the generator
MaxRender == 9

\* the i-th value of tone n, scaled to a 16-bit integer: every value is another one
ToneValue(n, i) == 254 + (n - 1) * MaxVals + i

\* monochannel_from_osc: array('h'), two bytes a value, low byte first
Mono(v) == <<v % 256, (v \div 256) % 256>>

RECURSIVE Stereo(_)
\* sample_from_osc: audioop.tostereo(mono, width, 1, 1) repeats every sample
Stereo(vals) == IF vals = <<>> THEN <<>>
                ELSE Mono(Head(vals)) \o Mono(Head(vals)) \o Stereo(Tail(vals))

\* the values of a tone of len values
Tone(n, len) == [i \in 1..len |-> ToneValue(n, i)]

\* a samplebuffer that is not handed on to the next tone
remaining_buffer_lost(samplebuffer) == <<>>

\* render_samples, "if return_remaining_buffer: return samplebuffer"
remaining_buffer(samplebuffer) == samplebuffer

\* "osc_chunksize = sample_chunksize // norm_samplewidth // norm_nchannels"
osc_chunksize(f, prm) == (f.chunksize \div prm.norm_samplewidth) \div prm.norm_nchannels

\* monochannel_from_osc(osc, chunksize): up to chunksize values of the oscillator,
\* all that are left when chunksize is 0
Taken(f, prm) ==
    LET left == Len(f.tones[f.n]) - f.pos
        k == IF osc_chunksize(f, prm) = 0 THEN left ELSE Min(osc_chunksize(f, prm), left)
    IN SubSeq(f.tones[f.n], f.pos + 1, f.pos + k)

RECURSIVE Resume(_, _)
\* next() on Finished.chunked_frame_data: the generator runs to its next yield or to
\* its end.  In tone n render_samples fills samplebuffer until it holds a chunk;
\* NoteFinished (no value left) ends the tone and hands samplebuffer to the next;
\* after the last tone what is left is yielded.
Resume(f, prm) ==
    IF f.n > Len(f.tones)
    THEN IF f.at = "tones" /\ f.samplebuffer # <<>>
         THEN [frame |-> [f EXCEPT !.at = "last"], raised |-> Ok, chunk |-> f.samplebuffer]
         ELSE [frame |-> [f EXCEPT !.at = "end"], raised |-> StopIteration, chunk |-> <<>>]
    ELSE IF Len(f.samplebuffer) < f.chunksize
    THEN IF Taken(f, prm) = <<>>
         THEN Resume([f EXCEPT !.n = f.n + 1, !.pos = 0,
                               !.samplebuffer = remaining_buffer(f.samplebuffer)], prm)
         ELSE Resume([f EXCEPT !.pos = f.pos + Len(Taken(f, prm)),
                               !.samplebuffer = f.samplebuffer \o Stereo(Taken(f, prm))], prm)
    ELSE [frame |-> [f EXCEPT !.samplebuffer = Slice(f.samplebuffer, f.chunksize,
                                                     Len(f.samplebuffer))],
          raised |-> IF Len(Slice(f.samplebuffer, 0, f.chunksize)) = f.chunksize
                     THEN Ok ELSE AssertionError,
          chunk |-> Slice(f.samplebuffer, 0, f.chunksize)]

\* Finished().chunked_frame_data(chunksize) was called; nothing has run yet
RenderInit ==
    /\ AtRest
    /\ driver = "none"
    /\ active_samples = <<>>
    /\ sample_counts = [n \in Names |-> 0]
    /\ _sid = 0
    /\ chunks_to_mix = <<>>
    /\ pc = [t \in Threads |-> IF t = Game THEN "render" ELSE "idle"]
    /\ sampledata = <<>>
    /\ yielded = <<>>
    /\ outdata = <<>>
    /\ played = {}
    /\ params = DefaultParams
    /\ \E csize \in 1..MaxRender, lens \in [1..NumTones -> 0..MaxVals] :
         gens = <<[tones |-> [n \in 1..NumTones |-> Tone(n, lens[n])], n |-> 1, pos |-> 0,
                   samplebuffer |-> <<>>, chunksize |-> csize, at |-> "tones"]>>

\* the caller's next(generator)
RenderNext ==
    /\ pc[Game] = "render"
    /\ LET r == Resume(gens[1], params)
       IN /\ gens' = <<r.frame>>
          /\ IF r.raised = Ok
             THEN /\ yielded' = Append(yielded, r.chunk)
                  /\ UNCHANGED <<pc, ret>>
             ELSE /\ ret' = [ret EXCEPT ![Game] = r.raised]
                  /\ pc' = [pc EXCEPT ![Game] = "idle"]
                  /\ UNCHANGED yielded
    /\ UNCHANGED <<mixer, add_lock, call, todo, cur, chunks_to_mix, out, driver, samp_queue, job,
                   calls, silence_mark, stopped, asm, limit_set, sampledata, params, outdata,
                   played>>

RenderSpec == RenderInit /\ [][RenderNext]_vars

\* the bytes the tones before tone n render, and the first pos values of tone n
RECURSIVE RenderedUpTo(_, _, _)
RenderedUpTo(tones, n, pos) ==
    IF n > Len(tones) THEN RenderedUpTo(tones, Len(tones), Len(tones[Len(tones)]))
    ELSE IF n = 1 THEN Stereo(SubSeq(tones[1], 1, pos))
    ELSE RenderedUpTo(tones, n - 1, Len(tones[n - 1])) \o Stereo(SubSeq(tones[n], 1, pos))

\* C29: of a sample rendered from successive tones no chunk is longer than the
\* chunk size asked, every chunk but the last is exactly that long, and the chunks
\* yielded, followed by what the buffer still holds, are the bytes rendered so far
\* in order: what a tone leaves over is carried into the next tone's first chunk,
\* and at the end a remainder has gone out as one last short chunk, so that the
\* chunks together are all the bytes of all the tones.
C29_RenderedChunks ==
    LET f == gens[1]
    IN /\ \A j \in DOMAIN yielded : Len(yielded[j]) <= f.chunksize /\ yielded[j] # <<>>
       /\ \A j \in 1..Len(yielded) - 1 : Len(yielded[j]) = f.chunksize
       /\ ret[Game] # AssertionError
       /\ IF f.at = "tones"
          THEN Concat(yielded) \o f.samplebuffer = RenderedUpTo(f.tones, f.n, f.pos)
          ELSE Concat(yielded) = RenderedUpTo(f.tones, NumTones, Len(f.tones[NumTones]))
       /\ pc[Game] = "idle" => f.at = "end"

\* the generator has ended after a last short chunk, and what the first tone left
\* over went out in a chunk together with bytes of the second
C29_Witness ==
    /\ pc[Game] = "idle" /\ gens[1].at = "end"
    /\ Len(yielded) >= 2
    /\ Len(yielded[Len(yielded)]) < gens[1].chunksize
    /\ Len(Stereo(gens[1].tones[1])) % gens[1].chunksize # 0
    /\ gens[1].tones[2] # <<>>

\* ------------------------------------------------------------ the stream's callback

\* most frames the host asks for in one callback when it chooses the block itself
MaxFrames == 2

\* RawOutputStream(..., blocksize=self.chunksize() // self.nchannels // self.samplewidth)
blocksize(csize, prm) == (csize \div prm.norm_nchannels) \div prm.norm_samplewidth

\* the frames of one callback: the block asked for, any number with blocksize 0
Frames(csize, prm) ==
    IF blocksize(csize, prm) = 0 THEN 1..MaxFrames ELSE {blocksize(csize, prm)}

\* "self._empty_sound_data = b"\0" * self.chunksize() * self.nchannels * self.samplewidth"
empty_sound_data(csize, prm) == Zeros(csize * prm.norm_nchannels * prm.norm_samplewidth)

\* Sounddevice.__init__ has run for some geometry and sample rate, so some chunk
\* size; one repeating voice (sid 1) of a sample with some data was added, and the
\* stream hands the callback a buffer of frames * nchannels * samplewidth bytes
CallbackInit ==
    /\ AtRest
    /\ driver = "Sounddevice"
    /\ chunks_to_mix = <<>>
    /\ yielded = <<>>
    /\ played = {}
    /\ active_samples = <<[sid |-> 1, name |-> "a", gen |-> 1]>>
    /\ sample_counts = [n \in Names |-> IF n = "a" THEN 1 ELSE 0]
    /\ _sid = 1
    /\ pc = [t \in Threads |-> IF t = Drv THEN "callback" ELSE "idle"]
    /\ sampledata \in Buffers \ {<<>>}
    /\ params \in [norm_samplewidth : 1..MaxWidth, norm_nchannels : {1, 2}]
    /\ \E csize \in 1..MaxChunk :
         /\ gens = <<[name |-> "a", len |-> Len(sampledata), repeat |-> TRUE, i |-> 0,
                      chunksize |-> csize]>>
         /\ \E frames \in Frames(csize, params), b \in 0..MaxByte :
              outdata = [j \in 1..frames * params.norm_nchannels * params.norm_samplewidth |-> b]

\* streamcallback(outdata, frames, time, status): the mixer's next chunk (the
\* voice's chunk, padded to the mixer's chunk size) is copied into outdata; a slice
\* assignment of another length than the slice raises ValueError
StreamCallback ==
    /\ pc[Drv] = "callback"
    /\ Len(yielded) < MaxPulls
    /\ LET g == gens[1]
           chunk == Chunk(g, sampledata)
           data == chunk \o Zeros(g.chunksize - Len(chunk))
       IN /\ gens' = <<Stepped(g, sampledata)>>
          /\ yielded' = Append(yielded, data)
          /\ IF data = <<>>
             THEN IF Len(outdata) = Len(empty_sound_data(g.chunksize, params))
                  THEN /\ outdata' = empty_sound_data(g.chunksize, params)
                       /\ UNCHANGED <<pc, ret>>
                  ELSE /\ ret' = [ret EXCEPT ![Drv] = AssertionError]
                       /\ pc' = [pc EXCEPT ![Drv] = "dead"]
                       /\ UNCHANGED outdata
             ELSE IF Len(data) < Len(outdata)
             THEN /\ outdata' = data \o Zeros(Len(outdata) - Len(data))
                  /\ UNCHANGED <<pc, ret>>
             ELSE IF Len(data) = Len(outdata)
             THEN /\ outdata' = data
                  /\ UNCHANGED <<pc, ret>>
             ELSE /\ ret' = [ret EXCEPT ![Drv] = ValueError]
                  /\ pc' = [pc EXCEPT ![Drv] = "dead"]
                  /\ UNCHANGED outdata
    /\ UNCHANGED <<mixer, add_lock, call, todo, cur, chunks_to_mix, out, driver, samp_queue, job,
                   calls, silence_mark, stopped, asm, limit_set, sampledata, params, played>>

CallbackSpec == CallbackInit /\ [][StreamCallback]_vars

\* the chunk the callback got last
LastChunk == yielded[Len(yielded)]

\* C30: whatever the length of the device buffer and the chunk size, the callback
\* fills the whole buffer without an error: the leading bytes of the mixer's chunk,
\* as many as fit, then zeros.
C30_CallbackFills ==
    yielded # <<>> =>
        /\ pc[Drv] # "dead"
        /\ outdata = Slice(LastChunk, 0, Min(Len(outdata), Len(LastChunk)))
                        \o Zeros(Len(outdata) - Min(Len(outdata), Len(LastChunk)))

\* ------------------------------------------------------------ the counts' sign

\* C31: whatever the game's threads add, stop by id, stop by name and silence while
\* the chunks are pulled, no name's count is below zero.
C31_CountsNotNegative == \A n \in Names : sample_counts[n] >= 0

\* a voice was stopped by its id, a silence was applied, and a remove_sample
\* found its voice gone already: every way a count goes down has been taken
C31_Witness ==
    /\ stopped # {}
    /\ silence_mark > 0
    /\ \E t \in Threads : ret[t] = KeyError
    /\ \E n \in Names : sample_counts[n] = 0 /\ ActiveNamed(n) = 0

====
